---- MODULE Spec2Model ----
(***************************************************************************)
(* Model of starlite's PythonRouteMap (src/starlite/route_map.py) and of   *)
(* the part of Starlite.__init__ / Starlite.register that feeds it         *)
(* (src/starlite/app.py).                                                  *)
(*                                                                         *)
(* A Python str is a sequence of one-character strings, so that strip,     *)
(* rstrip, endswith, split and replace are computed on characters as the   *)
(* interpreter computes them.  A tree node is named by the sequence of     *)
(* child keys that leads to it from PythonRouteMap._tree; `tree` maps each *)
(* existing node to its `data` (None or a _RouteMapLeafData).              *)
(***************************************************************************)
EXTENDS Integers, Sequences, FiniteSets, TLC

VARIABLES
    static_paths,   \* Starlite.static_paths: set of str
    tree,           \* PythonRouteMap._tree: node position -> data
    plain_routes,   \* PythonRouteMap._plain_routes: str -> data
    pc,             \* where the application is: "init", "static", "running"
    n_routes,       \* number of routes handed to add_routes so far
    last            \* the latest call of the route map: arguments and outcome

vars == <<static_paths, tree, plain_routes, pc, n_routes, last>>

-----------------------------------------------------------------------------
(* Bounds *)

\* routes handed to add_routes in one behaviour
MaxRoutes == 2
\* segments of a generated request path
MaxDepth == 3

-----------------------------------------------------------------------------
(* Python str operations, on sequences of characters *)

Whitespace == {" "}

\* str.strip() with no argument: leading whitespace
RECURSIVE lstrip(_)
lstrip(s) ==
    IF s # <<>> /\ Head(s) \in Whitespace THEN lstrip(Tail(s)) ELSE s

\* trailing characters of the set `chars` removed, all of them
RECURSIVE rstrip_chars(_, _)
rstrip_chars(s, chars) ==
    IF s # <<>> /\ s[Len(s)] \in chars
    THEN rstrip_chars(SubSeq(s, 1, Len(s) - 1), chars)
    ELSE s

strip(s) == rstrip_chars(lstrip(s), Whitespace)

rstrip(s, ch) == rstrip_chars(s, {ch})

endswith(s, ch) == s # <<>> /\ s[Len(s)] = ch

\* str.replace(old, new): every non-overlapping occurrence, left to right
RECURSIVE replace(_, _, _)
replace(s, old, new) ==
    IF old = <<>>
    THEN IF s = <<>> THEN new ELSE new \o <<Head(s)>> \o replace(Tail(s), old, new)
    ELSE IF Len(s) < Len(old) THEN s
    ELSE IF SubSeq(s, 1, Len(old)) = old
         THEN new \o replace(SubSeq(s, Len(old) + 1, Len(s)), old, new)
         ELSE <<Head(s)>> \o replace(Tail(s), old, new)

\* [component for component in path.split("/") if component]
RECURSIVE split_nonempty(_, _)
split_nonempty(s, acc) ==
    IF s = <<>> THEN (IF acc = <<>> THEN <<>> ELSE <<acc>>)
    ELSE IF Head(s) = "/"
         THEN (IF acc = <<>> THEN <<>> ELSE <<acc>>) \o split_nonempty(Tail(s), <<>>)
         ELSE split_nonempty(Tail(s), Append(acc, Head(s)))

\* ["/", *[component for component in path.split("/") if component]]
components(path) == << <<"/">> >> \o split_nonempty(path, <<>>)

-----------------------------------------------------------------------------
(* Data model *)

None == [is_none |-> TRUE]

\* dispatch keys: HTTP method names, ScopeType.WEBSOCKET, ScopeType.ASGI
HttpMethods == {"GET", "POST"}
WEBSOCKET == "websocket"
ASGI == "asgi"
HTTP == "http"

NoHandlers == [k \in {} |-> <<>>]

\* _RouteMapLeafData()
NewLeafData ==
    [path_parameters |-> <<>>, asgi_handlers |-> NoHandlers,
     is_asgi |-> FALSE, static_path |-> <<>>]

\* _RouteMapTree(): no children, data None
NewTree == (<<>> :> None)

\* node.children[key] on the defaultdict: a missing key is created on read
child_getitem(t, node, key) ==
    IF Append(node, key) \in DOMAIN t THEN t ELSE t @@ (Append(node, key) :> None)

\* self._plain_routes[path] on the defaultdict
plain_getitem(pl, path) ==
    IF path \in DOMAIN pl THEN pl ELSE pl @@ (path :> None)

\* Starlite.build_route_middleware_stack(route, handler): an opaque ASGI app,
\* identified by the route and the dispatch key it was built for
build_route_middleware_stack(route, key) == <<route.id, key>>

-----------------------------------------------------------------------------
(* PythonRouteMap.add_routes *)

\* "{" + param_definition["full"] + "}"
braced(full) == <<"{">> \o full \o <<"}">>

\* for param_definition in route.path_parameters:
\*     path = path.replace("{" + param_definition["full"] + "}", "*")
RECURSIVE replace_parameters(_, _)
replace_parameters(path, params) ==
    IF params = <<>> THEN path
    ELSE replace_parameters(replace(path, braced(Head(params).full), <<"*">>),
                            Tail(params))

\* cur = self._tree; for component in components: cur = cur.children[component]
RECURSIVE create_children(_, _, _)
create_children(t, node, comps) ==
    IF comps = <<>> THEN t
    ELSE create_children(child_getitem(t, node, Head(comps)),
                         Append(node, Head(comps)), Tail(comps))

\* cur.data, for cur a node of the tree or an entry of the static route map
get_data(rm, cur) ==
    IF cur.in_tree THEN rm.tree[cur.key] ELSE rm.plain_routes[cur.key]

set_data(rm, cur, d) ==
    IF cur.in_tree
    THEN [rm EXCEPT !.tree = [@ EXCEPT ![cur.key] = d]]
    ELSE [rm EXCEPT !.plain_routes = [@ EXCEPT ![cur.key] = d]]

\* the handlers the route writes into data.asgi_handlers
route_handlers(route, old) ==
    CASE route.kind = "HTTPRoute" ->
            [k \in DOMAIN old \cup route.methods |->
                IF k \in route.methods
                THEN build_route_middleware_stack(route, k) ELSE old[k]]
      [] route.kind = "WebSocketRoute" ->
            [k \in DOMAIN old \cup {WEBSOCKET} |->
                IF k = WEBSOCKET
                THEN build_route_middleware_stack(route, k) ELSE old[k]]
      [] route.kind = "ASGIRoute" ->
            [k \in DOMAIN old \cup {ASGI} |->
                IF k = ASGI
                THEN build_route_middleware_stack(route, k) ELSE old[k]]
      [] OTHER -> old

\* the conflict test comparing the parameters' names alone
names_of(params) == [i \in 1..Len(params) |-> params[i].name]

conflicting_parameter_names(data, route) ==
    data.path_parameters # <<>>
    /\ names_of(data.path_parameters) # names_of(route.path_parameters)

\* `data.path_parameters and data.path_parameters != route.path_parameters`
conflicting_parameters(data, route) ==
    data.path_parameters # <<>> /\ data.path_parameters # route.path_parameters

\* one iteration of the loop of add_routes; rm is [tree, plain_routes, raised]
add_route(rm, sp, route) ==
    LET in_tree == route.path_parameters # <<>> \/ route.path \in sp
        path == IF in_tree
                THEN replace_parameters(route.path, route.path_parameters)
                ELSE route.path
        cur == IF in_tree
               THEN [in_tree |-> TRUE, key |-> components(path)]
               ELSE [in_tree |-> FALSE, key |-> path]
        rm1 == IF in_tree
               THEN [rm EXCEPT !.tree = create_children(@, <<>>, components(path))]
               ELSE [rm EXCEPT !.plain_routes = plain_getitem(@, path)]
        data1 == IF get_data(rm1, cur) = None THEN NewLeafData
                 ELSE get_data(rm1, cur)
        rm2 == set_data(rm1, cur, data1)
        data2 == [data1 EXCEPT !.path_parameters = route.path_parameters]
        data3 == IF path \in sp
                 THEN [data2 EXCEPT !.is_asgi = TRUE, !.static_path = path]
                 ELSE data2
        data4 == [data3 EXCEPT
                    !.asgi_handlers = route_handlers(route, @),
                    !.is_asgi = IF route.kind = "ASGIRoute" THEN TRUE ELSE @]
        known == route.kind \in {"HTTPRoute", "WebSocketRoute", "ASGIRoute"}
    IN  IF conflicting_parameters(data1, route)
        THEN [rm2 EXCEPT !.raised = TRUE]
        ELSE IF known
             THEN set_data(rm2, cur, data4)
             ELSE [set_data(rm2, cur, data3) EXCEPT !.raised = TRUE]

\* for route in routes: ..., left by the first exception
RECURSIVE add_routes(_, _, _)
add_routes(rm, sp, routes) ==
    IF routes = <<>> \/ rm.raised THEN rm
    ELSE add_routes(add_route(rm, sp, Head(routes)), sp, Tail(routes))

-----------------------------------------------------------------------------
(* PythonRouteMap.resolve_route *)

\* parse_path_params(data.path_parameters, path_params): the parser is an
\* external collaborator; the call is kept as the arguments handed to it
parse_path_params(path_parameters, raw_params) ==
    [parsed |-> TRUE, defs |-> path_parameters, raw |-> raw_params]

NotParsed == [parsed |-> FALSE, defs |-> <<>>, raw |-> <<>>]

NoHandler == <<>>

\* a returned ASGI app
Returned(handler) == [kind |-> "handler", handler |-> handler, args |-> <<>>]

\* raise NotFoundException() / raise MethodNotAllowedException()
Raised(exception) == [kind |-> exception, handler |-> NoHandler, args |-> <<>>]

\* the membership test dropped: the child is read whether it exists or not
child_in_unchecked(t, cur, key) == TRUE

\* `component in cur.children`, `"*" in cur.children`
child_in(t, cur, key) == Append(cur, key) \in DOMAIN t

\* the mount fallback left out
mount_fallback_missing(data) == FALSE

\* `cur.data and cur.data.static_path`
mount_fallback(data) == data # None /\ data.static_path # <<>>

\* if cur.data.static_path != "/":
\*     scope["path"] = scope["path"].replace(cur.data.static_path, "")
mount_rewrite(scope, static_path) ==
    IF static_path # <<"/">>
    THEN [scope EXCEPT !.path = replace(@, static_path, <<>>)]
    ELSE scope

\* the loop with the two membership tests in the other order: the wildcard
\* child is tried before the literal child
RECURSIVE traverse_components_wildcard_first(_, _, _, _, _)
traverse_components_wildcard_first(t, cur, comps, path_params, scope) ==
    IF comps = <<>>
    THEN [raised |-> FALSE, tree |-> t, cur |-> cur,
          path_params |-> path_params, scope |-> scope]
    ELSE LET component == Head(comps) IN
         IF child_in(t, cur, <<"*">>)
         THEN traverse_components_wildcard_first(
                    child_getitem(t, cur, <<"*">>), Append(cur, <<"*">>),
                    Tail(comps), Append(path_params, component), scope)
         ELSE IF child_in(t, cur, component)
         THEN traverse_components_wildcard_first(
                    child_getitem(t, cur, component), Append(cur, component),
                    Tail(comps), path_params, scope)
         ELSE IF mount_fallback(t[cur])
         THEN traverse_components_wildcard_first(
                    t, cur, Tail(comps), path_params,
                    mount_rewrite(scope, t[cur].static_path))
         ELSE [raised |-> TRUE, tree |-> t, cur |-> cur,
               path_params |-> path_params, scope |-> scope]

\* the loop of _traverse_route_map over the components still to match
RECURSIVE traverse_components(_, _, _, _, _)
traverse_components(t, cur, comps, path_params, scope) ==
    IF comps = <<>>
    THEN [raised |-> FALSE, tree |-> t, cur |-> cur,
          path_params |-> path_params, scope |-> scope]
    ELSE LET component == Head(comps) IN
         IF child_in(t, cur, component)
         THEN traverse_components(child_getitem(t, cur, component),
                                  Append(cur, component), Tail(comps),
                                  path_params, scope)
         ELSE IF child_in(t, cur, <<"*">>)
         THEN traverse_components(child_getitem(t, cur, <<"*">>),
                                  Append(cur, <<"*">>), Tail(comps),
                                  Append(path_params, component), scope)
         ELSE IF mount_fallback(t[cur])
         THEN traverse_components(t, cur, Tail(comps), path_params,
                                  mount_rewrite(scope, t[cur].static_path))
         ELSE [raised |-> TRUE, tree |-> t, cur |-> cur,
               path_params |-> path_params, scope |-> scope]

\* _traverse_route_map(path, scope)
traverse_route_map(t, path, scope) ==
    traverse_components(t, <<>>, components(path), <<>>, scope)

\* the trailing "/" kept
normalized_path_unstripped(scope) == strip(scope.path)

\* path = scope["path"].strip(); a trailing "/" stripped unless path is "/"
normalized_path(scope) ==
    LET path == strip(scope.path) IN
    IF path # <<"/">> /\ endswith(path, "/") THEN rstrip(path, "/") ELSE path

\* the dispatch with the is_asgi test left out: the scope type alone decides
dispatch_by_scope_type(data, path_params, scope) ==
    IF data = None
    THEN [scope |-> scope, result |-> Raised("NotFound")]
    ELSE LET scope1 == [scope EXCEPT !.path_params =
                            parse_path_params(data.path_parameters, path_params)]
             handlers == data.asgi_handlers
             result ==
                IF scope.type = HTTP
                THEN IF scope.method \notin DOMAIN handlers
                     THEN Raised("MethodNotAllowed")
                     ELSE Returned(handlers[scope.method])
                ELSE IF WEBSOCKET \in DOMAIN handlers
                     THEN Returned(handlers[WEBSOCKET]) ELSE Raised("NotFound")
         IN  [scope |-> scope1, result |-> result]

\* the dispatch on the leaf found, lines 94-105, KeyError turned into NotFound
dispatch(data, path_params, scope) ==
    IF data = None
    THEN [scope |-> scope, result |-> Raised("NotFound")]
    ELSE LET scope1 == [scope EXCEPT !.path_params =
                            parse_path_params(data.path_parameters, path_params)]
             handlers == data.asgi_handlers
             result ==
                IF data.is_asgi
                THEN IF ASGI \in DOMAIN handlers
                     THEN Returned(handlers[ASGI]) ELSE Raised("NotFound")
                ELSE IF scope.type = HTTP
                THEN IF scope.method \notin DOMAIN handlers
                     THEN Raised("MethodNotAllowed")
                     ELSE Returned(handlers[scope.method])
                ELSE IF WEBSOCKET \in DOMAIN handlers
                     THEN Returned(handlers[WEBSOCKET]) ELSE Raised("NotFound")
         IN  [scope |-> scope1, result |-> result]

\* `path in self._plain_routes`
plain_in(pl, path) == path \in DOMAIN pl

\* resolve_route keeping the leaf a descent found in the static route map
resolve_route_cached(rm, scope) ==
    LET path == normalized_path(scope) IN
    IF plain_in(rm.plain_routes, path)
    THEN LET d == dispatch(rm.plain_routes[path], <<>>, scope)
         IN  [rm |-> rm, scope |-> d.scope, result |-> d.result]
    ELSE LET tr == traverse_route_map(rm.tree, path, scope)
         IN  IF tr.raised
             THEN [rm |-> rm, scope |-> tr.scope, result |-> Raised("NotFound")]
             ELSE LET d == dispatch(tr.tree[tr.cur], tr.path_params, tr.scope)
                  IN  [rm |-> [rm EXCEPT !.plain_routes =
                                   (path :> tr.tree[tr.cur]) @@ @],
                       scope |-> d.scope, result |-> d.result]

\* resolve_route(scope); rm is [tree, plain_routes]: the structures are handed
\* back as the call leaves them, with the scope and the outcome
resolve_route(rm, scope) ==
    LET path == normalized_path(scope) IN
    IF plain_in(rm.plain_routes, path)
    THEN LET rm1 == [rm EXCEPT !.plain_routes = plain_getitem(@, path)]
             d == dispatch(rm1.plain_routes[path], <<>>, scope)
         IN  [rm |-> rm1, scope |-> d.scope, result |-> d.result]
    ELSE LET tr == traverse_route_map(rm.tree, path, scope)
             rm1 == [rm EXCEPT !.tree = tr.tree]
         IN  IF tr.raised
             THEN [rm |-> rm1, scope |-> tr.scope, result |-> Raised("NotFound")]
             ELSE LET d == dispatch(tr.tree[tr.cur], tr.path_params, tr.scope)
                  IN  [rm |-> rm1, scope |-> d.scope, result |-> d.result]

-----------------------------------------------------------------------------
(* Inputs: the routes the application registers and the requests it serves *)

seg_a == <<"a">>
seg_b == <<"b">>

\* a path parameter definition of BaseRoute.path_parameters
x_int == [name |-> "x", full |-> <<"x", ":", "i", "n", "t">>, type |-> "int"]
y_int == [name |-> "y", full |-> <<"y", ":", "i", "n", "t">>, type |-> "int"]
x_str == [name |-> "x", full |-> <<"x", ":", "s", "t", "r">>, type |-> "str"]

\* "/" + "/".join(segments)
RECURSIVE join(_)
join(segments) ==
    IF segments = <<>> THEN <<>>
    ELSE <<"/">> \o Head(segments) \o join(Tail(segments))

Root == <<"/">>

Route(id, kind, path, path_parameters, methods) ==
    [id |-> id, kind |-> kind, path |-> path,
     path_parameters |-> path_parameters, methods |-> methods]

Routes ==
    { Route(1, "HTTPRoute", join(<<seg_a>>), <<>>, {"GET"}),
      Route(2, "HTTPRoute", join(<<seg_a, seg_b>>), <<>>, {"GET"}),
      Route(3, "HTTPRoute", join(<<seg_a, braced(x_int.full)>>), <<x_int>>, {"GET"}),
      Route(4, "HTTPRoute", join(<<seg_a, braced(y_int.full)>>), <<y_int>>, {"GET"}),
      Route(5, "HTTPRoute", join(<<seg_a, braced(x_str.full)>>), <<x_str>>, {"POST"}),
      Route(6, "HTTPRoute", join(<<seg_a, seg_b, braced(x_int.full)>>), <<x_int>>, {"GET"}),
      Route(7, "HTTPRoute", join(<<seg_a, braced(x_int.full), seg_b>>), <<x_int>>, {"GET"}),
      Route(8, "WebSocketRoute", join(<<seg_b>>), <<>>, {}),
      Route(9, "ASGIRoute", join(<<seg_b>>), <<>>, {}),
      Route(10, "HTTPRoute", Root, <<>>, {"GET"}),
      Route(11, "BaseRoute", join(<<seg_b>>), <<>>, {}),
      Route(12, "HTTPRoute", join(<<seg_b>>), <<>>, {"POST"}),
      Route(13, "WebSocketRoute", join(<<seg_a, braced(x_int.full)>>), <<x_int>>, {}) }

\* the normalized paths of the StaticFilesConfig objects
StaticFilesPaths == {join(<<seg_a>>), Root}

\* asgi(path=path)(static_files), as the ASGIRoute Router.register makes of it
StaticFilesRoute(path) ==
    Route(IF path = Root THEN 20 ELSE 21, "ASGIRoute", path, <<>>, {})

\* the arguments of one add_routes call: the sequences of `k` routes
Batches(k) == [1..k -> Routes]

\* segments a request path is made of
Segments == {seg_a, seg_b}

\* the paths of 1..n segments
PathsOfDepth(n) == {join(ss) : ss \in UNION {[1..k -> Segments] : k \in 1..n}}

\* request paths: every path of up to MaxDepth segments; the shorter ones with
\* a trailing slash; paths with a "*" segment, an empty segment, a blank
RequestPaths ==
    PathsOfDepth(MaxDepth)
    \cup {p \o <<"/">> : p \in PathsOfDepth(MaxDepth - 1)}
    \cup { Root,
           join(<<seg_a, <<"*">> >>),
           join(<<seg_a, <<"*">> >>) \o <<"/">>,
           join(<<seg_a, <<"*">>, seg_b>>),
           join(<<seg_a>>) \o <<"/">> \o join(<<seg_b>>),
           <<"/">> \o join(<<seg_a>>),
           <<" ">> \o join(<<seg_a>>) }

Scope(path, type, method) ==
    [path |-> path, type |-> type, method |-> method, path_params |-> NotParsed]

Requests ==
    {Scope(p, HTTP, m) : p \in RequestPaths, m \in HttpMethods}
    \cup {Scope(p, WEBSOCKET, "none") : p \in RequestPaths}

-----------------------------------------------------------------------------
(* The state machine *)

NoCall ==
    [op |-> "none", routes |-> <<>>, raised |-> FALSE, repeated |-> FALSE,
     request |-> Scope(<<>>, "none", "none"),
     scope |-> Scope(<<>>, "none", "none"), result |-> Raised("none")]

route_map == [tree |-> tree, plain_routes |-> plain_routes]

\* Starlite.__init__ up to RouteMap(app=self): nothing registered
Init ==
    /\ static_paths = {}
    /\ tree = NewTree
    /\ plain_routes = [p \in {} |-> None]
    /\ pc = "init"
    /\ n_routes = 0
    /\ last = NoCall

\* self.route_map.add_routes(routes) of Starlite.register, raising or not
call_add_routes(routes, sp) ==
    LET rm == add_routes([tree |-> tree, plain_routes |-> plain_routes,
                          raised |-> FALSE], sp, routes)
    IN  /\ tree' = rm.tree
        /\ plain_routes' = rm.plain_routes
        /\ last' = [NoCall EXCEPT !.op = "add_routes", !.routes = routes,
                                  !.raised = rm.raised]

\* Starlite.register(value), during __init__ (the route handlers, the OpenAPI
\* controller) or afterwards
Register(routes) ==
    /\ last.op # "resolve_route"
    /\ n_routes + Len(routes) <= MaxRoutes
    /\ call_add_routes(routes, static_paths)
    /\ n_routes' = n_routes + Len(routes)
    /\ pc' = IF pc = "init" THEN "init" ELSE "running"
    /\ UNCHANGED static_paths

\* one iteration of the static_files_config loop of Starlite.__init__:
\* self.static_paths.add(path); self.register(asgi(path=path)(static_files))
RegisterStaticFiles(path) ==
    /\ last.op # "resolve_route"
    /\ pc \in {"init", "static"}
    /\ n_routes + 1 <= MaxRoutes
    /\ static_paths' = static_paths \cup {path}
    /\ call_add_routes(<<StaticFilesRoute(path)>>, static_paths')
    /\ n_routes' = n_routes + 1
    /\ pc' = "static"

\* one request: self.route_map.resolve_route(scope).  `last` observes one
\* call and, after it, only a call that repeats its arguments
Resolve(request) ==
    /\ last.op = "resolve_route" => request = last.request
    /\ LET r == resolve_route(route_map, request)
       IN  /\ tree' = r.rm.tree
           /\ plain_routes' = r.rm.plain_routes
           /\ last' = [NoCall EXCEPT !.op = "resolve_route",
                                     !.repeated = (last.op = "resolve_route"),
                                     !.request = request, !.scope = r.scope,
                                     !.result = r.result]
    /\ UNCHANGED <<static_paths, pc, n_routes>>

\* the observed request is over: the next call, or the next registration, is
\* observed afresh, so that any sequence of calls is a behaviour
Forget ==
    /\ last.op = "resolve_route"
    /\ last' = NoCall
    /\ UNCHANGED <<static_paths, tree, plain_routes, pc, n_routes>>

Next ==
    \/ \E k \in 1..(MaxRoutes - n_routes) : \E routes \in Batches(k) :
            Register(routes)
    \/ \E path \in StaticFilesPaths : RegisterStaticFiles(path)
    \/ \E request \in Requests : Resolve(request)
    \/ Forget

Spec == Init /\ [][Next]_vars

\* Starlite.__init__ with no route handlers and a static_files_config, after
\* the first iteration of its loop: the path declared, its ASGI route added
MountedInit ==
    \E path \in StaticFilesPaths :
        LET rm == add_routes([tree |-> NewTree,
                              plain_routes |-> [p \in {} |-> None],
                              raised |-> FALSE],
                             {path}, <<StaticFilesRoute(path)>>)
        IN  /\ static_paths = {path}
            /\ tree = rm.tree
            /\ plain_routes = rm.plain_routes
            /\ pc = "static"
            /\ n_routes = 0
            /\ last = NoCall

\* the application with a mount, and the routes registered on it afterwards
MountedSpec == MountedInit /\ [][Next]_vars

-----------------------------------------------------------------------------
(* Vocabulary of the properties *)

Resolved == last.op = "resolve_route"

\* the string s begins with the string pre
startswith(s, pre) ==
    Len(pre) <= Len(s) /\ SubSeq(s, 1, Len(pre)) = pre

\* the components of the request path of the observed call, as they are matched
RequestComponents == components(normalized_path(last.request))

\* the request of the observed call misses the static route map
Descends == ~plain_in(plain_routes, normalized_path(last.request))

\* the HTTP methods a leaf has handlers for
methods_of(data) == DOMAIN data.asgi_handlers \cap HttpMethods

\* the tree position add_routes gives a route with path parameters
position(route) ==
    components(replace_parameters(route.path, route.path_parameters))

\* the node of a literal path
node_of(path) == components(path)

\* the mounts: declared static paths with their ASGI route registered
Mounts ==
    {m \in static_paths :
        /\ node_of(m) \in DOMAIN tree
        /\ tree[node_of(m)] # None
        /\ ASGI \in DOMAIN tree[node_of(m)].asgi_handlers}

mount_handler(m) == tree[node_of(m)].asgi_handlers[ASGI]

\* comps names a position strictly below the node of mount m
below(m, comps) ==
    /\ Len(comps) > Len(node_of(m))
    /\ SubSeq(comps, 1, Len(node_of(m))) = node_of(m)

\* the segments of comps after the node of mount m
rest(m, comps) == SubSeq(comps, Len(node_of(m)) + 1, Len(comps))

\* the outcome of a call: what is returned or raised, and what the parser got
outcome(result, scope) == [result |-> result, path_params |-> scope.path_params]

\* the leaf the observed call reached: None if it reached none
reached_leaf ==
    LET path == normalized_path(last.request) IN
    IF plain_in(plain_routes, path) THEN plain_routes[path]
    ELSE LET tr == traverse_route_map(tree, path, last.request)
         IN  IF tr.raised THEN None ELSE tree[tr.cur]

-----------------------------------------------------------------------------
(* Properties *)

\* C1: for every parameter-free path p that is not a mount prefix and has an
\* HTTP route registered, resolve_route on p with scope type HTTP returns the
\* handler registered for the method when the method is registered at p, and
\* raises MethodNotAllowed when it is not.
C1_StaticRouteDispatch ==
    \A p \in DOMAIN plain_routes :
        ( /\ Resolved
          /\ last.request.path = p
          /\ last.request.type = HTTP
          /\ p \notin static_paths
          /\ plain_routes[p] # None
          /\ methods_of(plain_routes[p]) # {} )
        => IF last.request.method \in methods_of(plain_routes[p])
           THEN last.result =
                    Returned(plain_routes[p].asgi_handlers[last.request.method])
           ELSE last.result.kind = "MethodNotAllowed"

\* the leaves of routes of the shape /items/{id}: one parameter, the last segment
OneParameterLeaves ==
    {n \in DOMAIN tree :
        /\ Len(n) >= 2
        /\ n[Len(n)] = <<"*">>
        /\ \A i \in 1..(Len(n) - 1) : n[i] # <<"*">>
        /\ tree[n] # None
        /\ ~tree[n].is_asgi
        /\ Len(tree[n].path_parameters) = 1
        /\ "GET" \in DOMAIN tree[n].asgi_handlers}

\* C2: for a route with one path parameter (shape /items/{id}), resolve_route
\* on /items/v with HTTP GET returns the route's GET handler and hands exactly
\* the one raw value v, for the parameter, to the parser; on /items/v/extra it
\* raises NotFound unless a deeper route was registered.  Stated for the
\* requests that descend the tree and whose v is no literal child of /items.
C2_OneParameterRoute ==
    \A n \in OneParameterLeaves :
        LET parent == SubSeq(n, 1, Len(n) - 1)
            comps == RequestComponents
        IN  /\ ( /\ Resolved /\ Descends
                 /\ last.request.type = HTTP /\ last.request.method = "GET"
                 /\ Len(comps) = Len(n)
                 /\ SubSeq(comps, 1, Len(parent)) = parent
                 /\ (comps[Len(n)] = <<"*">>
                        \/ ~child_in(tree, parent, comps[Len(n)])) )
               => /\ last.result = Returned(tree[n].asgi_handlers["GET"])
                  /\ last.scope.path_params =
                        parse_path_params(tree[n].path_parameters,
                                          <<comps[Len(n)]>>)
            /\ ( /\ Resolved /\ Descends
                 /\ Len(comps) = Len(n) + 1
                 /\ SubSeq(comps, 1, Len(parent)) = parent
                 /\ ~child_in(tree, parent, comps[Len(n)])
                 /\ \A k \in DOMAIN tree : ~(Len(k) > Len(n) /\ SubSeq(k, 1, Len(n)) = n) )
               => last.result.kind = "NotFound"

\* two parameter lists differ in a parameter's name or declared type
differ_in_name_or_type(ps, qs) ==
    \/ Len(ps) # Len(qs)
    \/ \E i \in 1..Len(ps) : ps[i].name # qs[i].name \/ ps[i].type # qs[i].type

\* C3: when a route with path parameters is registered at a tree position,
\* add_routes of a route that maps to the same position raises
\* ImproperlyConfiguredException if its parameter list differs in a name or a
\* declared type, whichever of the two came first, and does not raise if the
\* parameter list is identical.
C3_ConflictingParameters ==
    [][ (last'.op = "add_routes" /\ Len(last'.routes) = 1) =>
          LET route == last'.routes[1]
              pos == position(route)
          IN  ( /\ route.path_parameters # <<>>
                /\ pos \in DOMAIN tree
                /\ tree[pos] # None
                /\ tree[pos].path_parameters # <<>> )
              => /\ differ_in_name_or_type(tree[pos].path_parameters,
                                           route.path_parameters)
                      => last'.raised
                 /\ tree[pos].path_parameters = route.path_parameters
                      => ~last'.raised ]_vars

\* a registration was refused for a parameter of another declared type
C3_Witness ==
    /\ last.op = "add_routes"
    /\ last.raised
    /\ last.routes = <<Route(5, "HTTPRoute", join(<<seg_a, braced(x_str.full)>>),
                             <<x_str>>, {"POST"})>>
    /\ tree[position(last.routes[1])].path_parameters = <<x_int>>

\* C4: for a path p other than /, resolve_route on p followed by one trailing
\* slash has the outcome of resolve_route on p (the same handler and parameter
\* values, or the same failure), for the same scope type and method; the path
\* / is looked up as it is.
C4_TrailingSlash ==
    Resolved =>
        LET q == last.request.path
            p == SubSeq(q, 1, Len(q) - 1)
            on_p == resolve_route(route_map, [last.request EXCEPT !.path = p])
        IN  /\ ( /\ Len(q) >= 2 /\ endswith(q, "/") /\ ~endswith(p, "/")
                 /\ strip(q) = q )
               => outcome(last.result, last.scope)
                    = outcome(on_p.result, on_p.scope)
            /\ (q = Root /\ plain_in(plain_routes, Root))
               => outcome(last.result, last.scope)
                    = LET d == dispatch(plain_routes[Root], <<>>, last.request)
                      IN  outcome(d.result, d.scope)

\* a path with a trailing slash resolved to a handler, with a parameter value
C4_Witness ==
    /\ Resolved
    /\ endswith(last.request.path, "/")
    /\ last.request.path # Root
    /\ last.result.kind = "handler"
    /\ last.scope.path_params.raw # <<>>

\* no node below the node of mount m matches a segment of the request
no_node_below(m, comps) ==
    /\ ~child_in(tree, node_of(m), <<"*">>)
    /\ \A i \in 1..Len(rest(m, comps)) :
           ~child_in(tree, node_of(m), rest(m, comps)[i])

\* C5 as stated: given a mount at a non-root prefix m and a request path
\* m/s1/.../sk (k >= 1) with no tree node below the mount node for any si,
\* resolve_route returns the mount's ASGI handler, for every scope type and
\* method.
C5_MountAbsorbs_AsStated ==
    \A m \in Mounts \ {Root} :
        ( /\ Resolved
          /\ below(m, RequestComponents)
          /\ no_node_below(m, RequestComponents) )
        => last.result = Returned(mount_handler(m))

\* C5 amended: ... and the request path, its trailing slash stripped, is not
\* a key of the static route map, resolve_route returns the mount's ASGI
\* handler, for every scope type and method.
C5_MountAbsorbs ==
    \A m \in Mounts \ {Root} :
        ( /\ Resolved
          /\ Descends
          /\ below(m, RequestComponents)
          /\ no_node_below(m, RequestComponents) )
        => last.result = Returned(mount_handler(m))

\* a WebSocket request two segments below a mount got the mount's handler
C5_Witness ==
    \E m \in Mounts \ {Root} :
        /\ Resolved
        /\ last.request.type = WEBSOCKET
        /\ below(m, RequestComponents)
        /\ Len(rest(m, RequestComponents)) = 2
        /\ last.result = Returned(mount_handler(m))

\* C6: for a mount match on a request path strictly below a non-root mount
\* prefix m, the path in the scope after resolve_route is the request path
\* with exactly the leading m removed and the rest kept as it is.
C6_MountPrefixRemoved ==
    \A m \in Mounts \ {Root} :
        ( /\ Resolved
          /\ Descends
          /\ below(m, RequestComponents)
          /\ startswith(last.request.path, m)
          /\ last.result = Returned(mount_handler(m)) )
        => last.scope.path
             = SubSeq(last.request.path, Len(m) + 1, Len(last.request.path))

\* C7: once the descent takes the mount fallback at a mount node (the segment
\* has no literal and no wildcard child there), the remaining segments are
\* absorbed: resolve_route returns the mount's handler whatever they are.
C7_MountAbsorbsRest ==
    \A m \in Mounts :
        ( /\ Resolved
          /\ Descends
          /\ below(m, RequestComponents)
          /\ ~child_in(tree, node_of(m), <<"*">>)
          /\ ~child_in(tree, node_of(m), rest(m, RequestComponents)[1]) )
        => last.result = Returned(mount_handler(m))

\* C8: a MethodNotAllowed failure of resolve_route carries the set of methods
\* the leaf allows.
C8_AllowedMethods ==
    (Resolved /\ last.result.kind = "MethodNotAllowed")
    => last.result.args = <<methods_of(reached_leaf)>>

\* C9: resolve_route leaves the tree (its nodes, their children and data) and
\* the static route map (its keys and data) as they were, whatever the request.
C9_ResolveReadOnly ==
    [][ last'.op = "resolve_route"
          => (tree' = tree /\ plain_routes' = plain_routes) ]_vars

\* a request for a path with no node in the tree and no static entry failed
C9_Witness ==
    /\ Resolved
    /\ Descends
    /\ RequestComponents \notin DOMAIN tree
    /\ last.result.kind = "NotFound"
    /\ Cardinality(DOMAIN tree) > 1

\* C10: resolve_route called again with the same path, scope type and method,
\* no route added in between, has the same outcome: the same handler and raw
\* parameter values, or the same failure.
C10_Idempotent ==
    [][ ( /\ last.op = "resolve_route"
          /\ last'.op = "resolve_route"
          /\ last'.request = last.request )
        => outcome(last'.result, last'.scope) = outcome(last.result, last.scope)
      ]_vars

\* a call was repeated and returned a handler with a parameter value
C10_Witness ==
    /\ Resolved
    /\ last.repeated
    /\ last.result.kind = "handler"
    /\ last.scope.path_params.raw # <<>>

\* the leaf data held for the literal path p: in the static route map, in the tree
in_static_map(p) == p \in DOMAIN plain_routes /\ plain_routes[p] # None

in_tree(p) == node_of(p) \in DOMAIN tree /\ tree[node_of(p)] # None

\* C11: after any sequence of registrations, the bootstrap order included (a
\* path declared a mount prefix after route handlers were registered at it),
\* no literal path has leaf data both in the static route map and at its node
\* in the tree.
C11_OneStructure ==
    \A p \in DOMAIN plain_routes : ~(in_static_map(p) /\ in_tree(p))

\* the leaves: the data of the tree's nodes and of the static route map
Leaves ==
    {tree[n] : n \in {k \in DOMAIN tree : tree[k] # None}}
    \cup {plain_routes[p] : p \in {q \in DOMAIN plain_routes : plain_routes[q] # None}}

\* the keys of a leaf's handler mapping exclude one another: HTTP methods
\* against WEBSOCKET and ASGI, WEBSOCKET against ASGI
exclusive_keys(data) ==
    LET keys == DOMAIN data.asgi_handlers IN
    /\ keys \cap HttpMethods # {} => keys \cap {WEBSOCKET, ASGI} = {}
    /\ ~({WEBSOCKET, ASGI} \subseteq keys)

ExclusiveKeys == \A data \in Leaves : exclusive_keys(data)

\* C12: an add_routes call that does not fail leaves no leaf whose handler
\* mapping holds an HTTP-method entry together with a WEBSOCKET or ASGI entry,
\* or a WEBSOCKET entry together with an ASGI entry, if there was none before.
C12_ExclusiveKeys ==
    [][ (ExclusiveKeys /\ last'.op = "add_routes" /\ ~last'.raised)
          => ExclusiveKeys' ]_vars

\* the path with its empty segments removed
without_empty_segments(path) ==
    IF split_nonempty(path, <<>>) = <<>> THEN Root
    ELSE join(split_nonempty(path, <<>>))

\* C13: a request path with empty segments (consecutive slashes) has the
\* outcome of the path with the empty segments removed, for routes in the tree
\* and routes in the static route map alike.
C13_EmptySegments ==
    ( /\ Resolved
      /\ strip(last.request.path) = last.request.path
      /\ ~endswith(last.request.path, "/")
      /\ without_empty_segments(last.request.path) # last.request.path )
    => LET on_p == resolve_route(route_map,
                     [last.request EXCEPT !.path = without_empty_segments(@)])
       IN  outcome(last.result, last.scope) = outcome(on_p.result, on_p.scope)

\* the leaves registered at the path /
RootLeaves ==
    (IF in_static_map(Root) THEN {plain_routes[Root]} ELSE {})
    \cup (IF in_tree(Root) THEN {tree[node_of(Root)]} ELSE {})

\* C14: resolve_route on / raises NotFound when no route is registered at /
\* (none at all, or routes at other paths only); once a route with a GET
\* handler is registered at /, resolve_route on / with HTTP GET returns that
\* handler.
C14_RootPath ==
    (Resolved /\ last.request.path = Root)
    => /\ RootLeaves = {} => last.result.kind = "NotFound"
       /\ ( /\ last.request.type = HTTP /\ last.request.method = "GET"
            /\ \E data \in RootLeaves : "GET" \in DOMAIN data.asgi_handlers )
          => \E data \in RootLeaves :
                /\ "GET" \in DOMAIN data.asgi_handlers
                /\ last.result = Returned(data.asgi_handlers["GET"])

\* the strictly forward walk from node over the segments still to match: the
\* literal child where there is one, the wildcard position otherwise, the
\* segment then recorded; the node named is in the tree iff the walk got there
RECURSIVE forward(_, _, _)
forward(node, segments, values) ==
    IF segments = <<>> THEN [node |-> node, values |-> values]
    ELSE IF Append(node, Head(segments)) \in DOMAIN tree
         THEN forward(Append(node, Head(segments)), Tail(segments), values)
         ELSE forward(Append(node, <<"*">>), Tail(segments),
                      Append(values, Head(segments)))

\* no leaf of the tree is a mount
NoMountInTree ==
    \A n \in DOMAIN tree : tree[n] = None \/ tree[n].static_path = <<>>

\* n is a position whose literal segments are those of comps
matches(n, comps) ==
    /\ Len(n) = Len(comps)
    /\ \A i \in 1..Len(n) : n[i] = comps[i] \/ n[i] = <<"*">>

\* C15: the descent is strictly forward: at every node the literal child equal
\* to the segment is taken when there is one, the segment not recorded as a
\* wildcard value, the wildcard child otherwise; the outcome is that of the
\* leaf this walk ends at, and NotFound if it ends at no leaf, whatever leaf a
\* wildcard sibling passed on the way leads to.
C15_ForwardDescent ==
    LET g == forward(<<>>, RequestComponents, <<>>) IN
    ( /\ Resolved
      /\ Descends
      /\ NoMountInTree \/ g.node \in DOMAIN tree )
    => IF g.node \in DOMAIN tree /\ tree[g.node] # None
       THEN outcome(last.result, last.scope)
              = LET d == dispatch(tree[g.node], g.values, last.request)
                IN  outcome(d.result, d.scope)
       ELSE last.result.kind = "NotFound"

\* a request failed at a literal node without data, while a wildcard sibling
\* of a literal child taken leads to a registered leaf for the same path
C15_Witness ==
    /\ Resolved
    /\ Descends
    /\ RequestComponents \in DOMAIN tree
    /\ tree[RequestComponents] = None
    /\ last.result.kind = "NotFound"
    /\ \E n \in DOMAIN tree :
          /\ matches(n, RequestComponents)
          /\ tree[n] # None
          /\ \E i \in 1..Len(n) : n[i] = <<"*">> /\ RequestComponents[i] # <<"*">>

\* C16: whenever resolve_route ends at a leaf flagged as a mount (registered at
\* a declared mount prefix, or given an ASGI route), it returns that leaf's
\* ASGI handler, for every scope type and HTTP method and whatever other
\* routes were registered at the leaf; it raises nothing there.
C16_MountLeafDispatch ==
    (Resolved /\ reached_leaf # None /\ reached_leaf.is_asgi)
    => /\ ASGI \in DOMAIN reached_leaf.asgi_handlers
       /\ last.result = Returned(reached_leaf.asgi_handlers[ASGI])

\* an HTTP request for a method the mount leaf has its own handler for got the
\* ASGI handler
C16_Witness ==
    /\ Resolved
    /\ reached_leaf # None
    /\ reached_leaf.is_asgi
    /\ last.request.type = HTTP
    /\ last.request.method \in methods_of(reached_leaf)
    /\ last.result = Returned(reached_leaf.asgi_handlers[ASGI])

\* the node the descent of the observed call ends at
reached_node == traverse_route_map(tree, normalized_path(last.request),
                                   last.request).cur

\* the segments of comps at the wildcard positions of node n, in order
RECURSIVE wildcard_segments(_, _)
wildcard_segments(n, comps) ==
    IF n = <<>> \/ comps = <<>> THEN <<>>
    ELSE (IF Head(n) = <<"*">> THEN <<Head(comps)>> ELSE <<>>)
         \o wildcard_segments(Tail(n), Tail(comps))

\* C17: for every resolve_route call that reaches a leaf, the list of wildcard
\* values handed to the parser is as long as the leaf's declared
\* path_parameters and its i-th value is the request segment at the position
\* of the i-th declared parameter, whatever the segment is, the text * too.
C17_PositionalValues ==
    (Resolved /\ reached_leaf # None)
    => LET raw == last.scope.path_params.raw IN
       /\ last.scope.path_params.parsed
       /\ Len(raw) = Len(reached_leaf.path_parameters)
       /\ Descends => raw = wildcard_segments(reached_node, RequestComponents)

\* C18: when add_routes raises on a route (conflicting path parameters, or an
\* unrecognized route type), the tree and the static route map are as the
\* routes before it left them: the failing route created no node and no
\* static-map entry and changed no leaf.
C18_FailedRouteLeavesNoTrace ==
    [][ (last'.op = "add_routes" /\ last'.raised)
        => \E k \in 0..(Len(last'.routes) - 1) :
              LET before == add_routes([tree |-> tree,
                                        plain_routes |-> plain_routes,
                                        raised |-> FALSE],
                                       static_paths', SubSeq(last'.routes, 1, k))
              IN  /\ ~before.raised
                  /\ add_route(before, static_paths', last'.routes[k + 1]).raised
                  /\ tree' = before.tree
                  /\ plain_routes' = before.plain_routes ]_vars

\* C19: whenever resolve_route raises NotFound or MethodNotAllowed, the path in
\* the scope is the path it was called with.
C19_FailureKeepsPath ==
    (Resolved /\ last.result.kind \in {"NotFound", "MethodNotAllowed"})
    => last.scope.path = last.request.path

\* the parameter-free HTTP routes registered strictly below mount m: the keys
\* of the static route map below m whose leaf has an HTTP-method handler
StaticRoutesBelow(m) ==
    {p \in DOMAIN plain_routes :
        /\ below(m, components(p))
        /\ in_static_map(p)
        /\ methods_of(plain_routes[p]) # {}}

\* C20: a parameter-free route registered at a path p strictly below a mount
\* prefix takes precedence over the mount for p: resolve_route on p returns
\* the route's own handler for a registered HTTP method and raises
\* MethodNotAllowed for another, and leaves the scope's path as it was; every
\* other path below the prefix, with no tree node of its own, still gets the
\* mount's handler.
C20_StaticRouteBelowMount ==
    \A m \in Mounts :
        ( /\ Resolved
          /\ StaticRoutesBelow(m) # {}
          /\ below(m, RequestComponents) )
        => LET p == normalized_path(last.request) IN
           IF p \in StaticRoutesBelow(m)
           THEN /\ last.scope.path = last.request.path
                /\ last.request.type = HTTP
                   => IF last.request.method \in methods_of(plain_routes[p])
                      THEN last.result =
                             Returned(plain_routes[p].asgi_handlers[last.request.method])
                      ELSE last.result.kind = "MethodNotAllowed"
           ELSE (Descends /\ no_node_below(m, RequestComponents))
                => last.result = Returned(mount_handler(m))

====
